---- MODULE Spec2Model ----
(***************************************************************************)
(* Model of sentry_sdk/integrations/starlette.py: the Starlette            *)
(* integration of sentry-python.  One request at a time travels through    *)
(* SentryStarletteMiddleware (the root) and a chain of three middleware    *)
(* classes built with starlette's Middleware(...), each of whose __call__  *)
(* has been patched by _sentry_middleware_init.  The asynchronous call     *)
(* chain of the request is a stack of frames; one action is one piece of   *)
(* a coroutine between two awaits.                                         *)
(***************************************************************************)
EXTENDS Integers, Sequences, FiniteSets, TLC

\* ------------------------------------------------------------------ bounds
\* Applications built in the process: each build constructs one
\* Middleware(cls) entry per class of the stack, and so patches cls again.
MaxInit == 2
\* Routes in the router's route table.
MaxRoutes == 2
\* request_bodies budget, scaled down; bodies run from 0 to SizeBudget + 1.
SizeBudget == 1

\* --------------------------------------------------------------- constants
\* The middleware stack starlette builds, outermost first: a user
\* middleware, AuthenticationMiddleware, ExceptionMiddleware, then the app.
UserMW == "UserMiddleware"
AuthMW == "AuthenticationMiddleware"
ExcMW == "ExceptionMiddleware"
Chain == <<UserMW, AuthMW, ExcMW>>
Classes == {UserMW, AuthMW, ExcMW}

\* StarletteIntegration.identifier
Identifier == "starlette"
TRANSACTION_STYLE_VALUES == {"endpoint", "url"}

\* Hub.current.client: none bound, bound without the integration, or bound
\* with StarletteIntegration(transaction_style).
ClientStates == {"none", "plain"} \cup TRANSACTION_STYLE_VALUES

\* Outcome of a call: a returned value or a raised exception.
None == "None"
Return(v) == [kind |-> "return", val |-> v]
Raise(e) == [kind |-> "raise", val |-> e]
NoResult == [kind |-> "pending", val |-> None]
\* What a user middleware's own __call__ may return.
RetVals == {None, "R"}

\* Attributes of the principal starlette stores in scope["user"]; "none" is
\* a missing (or None) attribute, "" an empty one.
Fields == {"username", "id", "email"}
Falsy == {"none", ""}
NoPrincipal == [username |-> "none", id |-> "none", email |-> "none"]
Principals ==
    { NoPrincipal,
      [username |-> "none", id |-> "none", email |-> "e@x"],
      [username |-> "", id |-> "7", email |-> "e@x"],
      [username |-> "bob", id |-> "7", email |-> "none"] }
\* scope["user"]: absent, or a principal
NoAsgiUser == [present |-> FALSE, who |-> NoPrincipal]
AsgiUser(p) == [present |-> TRUE, who |-> p]

\* sentry_scope.user: None (unset) or a dict
EmptyDict == [f \in {} |-> ""]
UserUnset == [set |-> FALSE, info |-> EmptyDict]
UserSet(d) == [set |-> TRUE, info |-> d]

\* The user the process-wide scope may carry (sentry_sdk.set_user at
\* start-up); every request's scope starts as a copy of that scope.
AmbientUsers == {UserUnset, UserSet([id |-> "svc"])}

VARIABLES
    client,       \* Hub.current.client / its integration (ClientStates)
    ambientUser,  \* the user of the process-wide scope
    callLayers,   \* per class: the patches stacked on cls.__call__, innermost first
    hookLayers,   \* patches stacked on ExceptionMiddleware.http_exception
    phase,        \* "idle", "running", "done" (the root has returned),
                  \* "exited" (the patched Starlette.__call__ has returned)
    scope,        \* the ASGI scope of the request: type, user, router
    stack,        \* the call chain of the request, innermost frame last
    result,       \* outcome handed from a finished callee to its caller
    sentryUser,   \* sentry_scope.user
    scopeName,    \* sentry_scope._name
    processors,   \* sentry_scope event processors, in registration order
    spanLog,      \* spans opened and closed, in order
    captured,     \* events handed to hub.capture_event, in order
    hookLog,      \* what the last http_exception dispatch did
    wrapLog,      \* per finished span wrapper: old_call's outcome and its own
    extractIn,    \* the request handed to the extractor (only while extracting)
    extractOut,   \* what extract_request_info did with it
    counts,       \* per-request counters of calls (see ZeroCounts)
    tasks         \* per concurrent request: its locals and its hub's scope

vars == <<client, ambientUser, callLayers, hookLayers, phase, scope, stack, result,
          sentryUser, scopeName, processors, spanLog, captured, hookLog,
          wrapLog, extractIn, extractOut, counts, tasks>>

\* what the steps of the request followed frame by frame leave alone
setupVars == <<client, ambientUser, callLayers, hookLayers, tasks>>
sentryVars == <<sentryUser, scopeName, processors>>
extractVars == <<extractIn, extractOut>>

\* hub.get_integration(StarletteIntegration) is not None
IntegrationActive == client \in TRANSACTION_STYLE_VALUES

\* ------------------------------------------------- StarletteRequestExtractor
\* A form field as starlette parsed it: a text value, or an UploadFile of
\* `size` bytes whose read() succeeds or not.
TextField(k, v) == [key |-> k, isFile |-> FALSE, val |-> v, size |-> 0, readable |-> TRUE]
FileField(k, n, ok) == [key |-> k, isFile |-> TRUE, val |-> "bytes", size |-> n, readable |-> ok]

\* The forms a body of n bytes can carry.
Forms(n) ==
    IF n = 0 THEN {<<>>}
    ELSE {<<>>, <<TextField("username", "Julian")>>}
         \cup { <<TextField("username", "Julian"), FileField("photo", s, ok)>> :
                    s \in 0..n, ok \in BOOLEAN }

\* What the request offers the extractor.  contentType "json" stands for a
\* JSON content type; jsonVal is what request.json() yields ("bad" when the
\* body does not parse, "null" for the JSON value null); formBad says that
\* request.form() raises.  Form fields come only with a form content type.
Requests ==
    { r \in [ len : 0..(SizeBudget + 1),
              pii : BOOLEAN,
              contentType : {"json", "form", "other"},
              jsonVal : {"bad", "null", "obj"},
              formBad : BOOLEAN,
              form : UNION { Forms(n) : n \in 0..(SizeBudget + 1) } ] :
        /\ r.form \in Forms(r.len)
        /\ r.contentType # "form" => r.form = <<>> /\ ~r.formBad
        /\ r.formBad => r.form = <<>> /\ r.len > 0
        /\ r.len = 0 => r.jsonVal = "bad"
        /\ r.contentType # "json" => r.jsonVal = "bad" }

NoRequest ==
    [len |-> 0, pii |-> FALSE, contentType |-> "other", jsonVal |-> "bad",
     formBad |-> FALSE, form |-> <<>>]

\* The value stored under "data": unset, an AnnotatedValue("", ...) whose
\* "rem" names the reason, a form mapping, or a parsed JSON value.
NoData == [kind |-> "unset", len |-> 0, val |-> "", fields |-> <<>>]
Annotated(reason, n) == [kind |-> reason, len |-> n, val |-> "", fields |-> <<>>]
FormData(fs) == [kind |-> "form", len |-> 0, val |-> "", fields |-> fs]
JsonData(v) == [kind |-> "json", len |-> 0, val |-> v, fields |-> <<>>]

\* request_info: None, or a dict with optional "cookies" and "data"
InfoNone == [isNone |-> TRUE, hasCookies |-> FALSE, data |-> NoData]
Info(ck, d) == [isNone |-> FALSE, hasCookies |-> ck, data |-> d]
\* `if info:` -- a dict is true when it has a key
InfoTruthy(i) == ~i.isNone /\ (i.hasCookies \/ i.data.kind # "unset")

\* results of the extractor's helpers: a value, None, or a raised exception
Got(d) == [kind |-> "value", exc |-> "", data |-> d]
GotNone == [kind |-> "none", exc |-> "", data |-> NoData]
Threw(e) == [kind |-> "raise", exc |-> e, data |-> NoData]

\* content_length(): len(await self.raw_data())
ContentLength(r) == r.len

\* raw_data(): the body bytes; true when non-empty
RawDataTruthy(r) == r.len > 0

\* request_body_within_bounds(client, content_length)
RequestBodyWithinBounds(n) == n <= SizeBudget

\* json(): None unless the content type is JSON, else request.json()
Json(r) ==
    IF r.contentType # "json" THEN GotNone
    ELSE IF r.jsonVal = "bad" THEN Threw("JSONDecodeError")
    ELSE IF r.jsonVal = "null" THEN GotNone
    ELSE Got(JsonData(r.jsonVal))

\* mutant: an upload is stored like any other field
FormFieldKeepsUpload(f) ==
    [key |-> f.key, annotated |-> FALSE, val |-> f.val, len |-> 0]

\* the per-field loop of parsed_body()
FormField(f) ==
    IF f.isFile
    THEN [key |-> f.key, annotated |-> TRUE, val |-> "", len |-> f.size]
    ELSE [key |-> f.key, annotated |-> FALSE, val |-> f.val, len |-> 0]

\* parsed_body(): the form mapping when the form is non-empty, else json()
ParsedBody(r) ==
    IF r.formBad THEN Threw("MultiPartException")
    ELSE IF r.form # <<>>
    THEN IF \E i \in 1..Len(r.form) : r.form[i].isFile /\ ~r.form[i].readable
         THEN Threw("OSError")
         ELSE Got(FormData([i \in 1..Len(r.form) |-> FormField(r.form[i])]))
    ELSE Json(r)

\* mutant: the body is parsed before its length is compared with the budget
ExtractDataParsesFirst(r) ==
    LET parsed == ParsedBody(r) IN
    IF parsed.kind = "raise" THEN parsed
    ELSE IF parsed.kind = "value" THEN parsed
    ELSE IF ~RequestBodyWithinBounds(ContentLength(r))
    THEN Got(Annotated("!config", ContentLength(r)))
    ELSE IF RawDataTruthy(r) THEN Got(Annotated("!raw", ContentLength(r)))
    ELSE GotNone

\* the choice of "data" in extract_request_info()
ExtractData(r) ==
    IF ~RequestBodyWithinBounds(ContentLength(r))
    THEN Got(Annotated("!config", ContentLength(r)))
    ELSE LET parsed == ParsedBody(r) IN
         IF parsed.kind = "raise" THEN parsed
         ELSE IF parsed.kind = "value" THEN parsed
         ELSE IF RawDataTruthy(r) THEN Got(Annotated("!raw", ContentLength(r)))
         ELSE GotNone

\* extract_request_info(): None without a client, else the request_info
\* dict; an exception of a helper is not caught.
ExtractIdle == [kind |-> "idle", exc |-> "", info |-> InfoNone]
ExtractRequestInfo(r, hasClient) ==
    IF ~hasClient THEN [kind |-> "return", exc |-> "", info |-> InfoNone]
    ELSE LET d == ExtractData(r) IN
         IF d.kind = "raise" THEN [kind |-> "raise", exc |-> d.exc, info |-> InfoNone]
         ELSE [kind |-> "return", exc |-> "", info |-> Info(r.pii, d.data)]

\* ------------------------------------------------------ scope, router, events
\* scope["router"]: absent until the router is reached; a route table is the
\* sequence of what each route's matches(scope) answers.  Route i has the
\* endpoint "endpoint<i>" and the path "/path<i>".
MatchValues == {"NONE", "PARTIAL", "FULL"}
RouteTables == [1..MaxRoutes -> MatchValues]
NoRouter == [present |-> FALSE, routes |-> <<>>]
Router(rt) == [present |-> TRUE, routes |-> rt]
EndpointName(i) == <<"endpoint", i>>
RoutePath(i) == <<"/path", i>>
NoTransaction == <<"unset", 0>>

RequestTypes == {"http", "websocket"}
NewScope(t) == [type |-> t, user |-> NoAsgiUser, router |-> NoRouter]

\* event["request"]: the keys the processor may write
EmptyRequestInfo == [hasCookies |-> FALSE, data |-> NoData]

\* event_from_exception(exception, mechanism = {type, handled})
EventFromException(exc, handled) ==
    [exc |-> exc, mechanism |-> Identifier, handled |-> handled,
     user |-> UserUnset, hasRequest |-> FALSE, request |-> EmptyRequestInfo,
     transaction |-> NoTransaction, tried |-> 0]

\* the name one FULL route gives the event, by transaction_style
RouteTransaction(style, i) ==
    IF style = "endpoint" THEN EndpointName(i) ELSE RoutePath(i)

\* The loop over router.routes of the event processor, from route i on:
\* every route is matched, and every FULL one assigns event["transaction"].
RECURSIVE SetTransaction(_, _, _, _)
SetTransaction(routes, style, i, ev) ==
    IF i > Len(routes) THEN ev
    ELSE SetTransaction(routes, style, i + 1,
            IF routes[i] = "FULL"
            THEN [ev EXCEPT !.transaction = RouteTransaction(style, i), !.tried = i]
            ELSE [ev EXCEPT !.tried = i])

\* mutant: the transaction name is resolved when the closure is made, from
\* the scope as it is then (the router has not been reached yet)
EventProcessorEager(p, sc, ev) ==
    LET req0 == IF ev.hasRequest THEN ev.request ELSE EmptyRequestInfo
        req1 == IF InfoTruthy(p.info)
                THEN [hasCookies |-> req0.hasCookies \/ p.info.hasCookies,
                      data |-> IF p.info.data.kind # "unset" THEN p.info.data
                               ELSE req0.data]
                ELSE req0
    IN [ev EXCEPT !.hasRequest = TRUE, !.request = req1]

\* _make_request_event_processor(req, integration).inner(event, hint), for
\* the closure p = (info, integration) and the request's scope sc
EventProcessor(p, sc, ev) ==
    LET req0 == IF ev.hasRequest THEN ev.request ELSE EmptyRequestInfo
        req1 == IF InfoTruthy(p.info)
                THEN [hasCookies |-> req0.hasCookies \/ p.info.hasCookies,
                      data |-> IF p.info.data.kind # "unset" THEN p.info.data
                               ELSE req0.data]
                ELSE req0
        ev1 == [ev EXCEPT !.hasRequest = TRUE, !.request = req1]
    IN IF sc.router.present
       THEN SetTransaction(sc.router.routes, p.style, 1, ev1)
       ELSE ev1

\* Scope.apply_to_event: the scope's user, then the event processors in
\* registration order
RECURSIVE RunProcessors(_, _, _, _)
RunProcessors(ps, sc, i, ev) ==
    IF i > Len(ps) THEN ev
    ELSE RunProcessors(ps, sc, i + 1, EventProcessor(ps[i], sc, ev))

ApplyToEvent(ev, user, ps, sc) ==
    RunProcessors(ps, sc, 1, [ev EXCEPT !.user = user])

\* _capture_exception(exception, handled): the events it hands to
\* hub.capture_event
CaptureException(exc, handled) ==
    IF ~IntegrationActive THEN <<>>
    ELSE <<ApplyToEvent(EventFromException(exc, handled), sentryUser, processors, scope)>>

\* The patched ExceptionMiddleware.http_exception with n patches stacked on
\* the original hook: what it captures, the order of its steps, the
\* arguments that reach the original hook and the value it returns.
OriginalResponse(exc) == <<"response", exc>>
RECURSIVE PatchedHttpException(_, _)
PatchedHttpException(n, exc) ==
    IF n = 0
    THEN [events |-> <<>>, ops |-> <<"original">>, args |-> <<exc>>,
          ret |-> OriginalResponse(exc)]
    ELSE LET mine == CaptureException(exc, TRUE)
             old == PatchedHttpException(n - 1, exc)
         IN [events |-> mine \o old.events,
             ops |-> (IF mine = <<>> THEN <<>> ELSE <<"capture">>) \o old.ops,
             args |-> old.args,
             ret |-> old.ret]
NoHook == [called |-> FALSE, exc |-> None, events |-> 0, ops |-> <<>>,
           args |-> <<>>, ret |-> <<"response", None>>, original |-> <<"response", None>>]

\* the dict _add_user_to_sentry_scope builds from the principal
UserInfo(p) == [f \in {g \in Fields : p[g] \notin Falsy} |-> p[f]]

\* --------------------------------------------------------------- call chain
Frame(fn, idx, layer, pc, span) ==
    [fn |-> fn, idx |-> idx, layer |-> layer, pc |-> pc, span |-> span]
Top == stack[Len(stack)]
Pop == SubSeq(stack, 1, Len(stack) - 1)
SetTop(f) == [stack EXCEPT ![Len(stack)] = f]

\* self.app of the middleware at chain position i (0 for the root): the
\* outermost patch of the next middleware class, or the router and endpoint
Callee(i) ==
    IF i < Len(Chain)
    THEN Frame("mw", i + 1, Len(callLayers[Chain[i + 1]]), "start", 0)
    ELSE Frame("app", 0, 0, "start", 0)

\* what runs in a middleware frame: the class's own __call__ or a patch
LayerKind(f) == IF f.layer = 0 THEN "orig" ELSE callLayers[Chain[f.idx]][f.layer]
IsMw(kind, pc) ==
    /\ phase = "running" /\ stack # <<>>
    /\ Top.fn = "mw" /\ LayerKind(Top) = kind /\ Top.pc = pc
    /\ (pc = "start" => result = NoResult)
    /\ (pc = "await" => result # NoResult)
IsOrig(cls, pc) == IsMw("orig", pc) /\ Chain[Top.idx] = cls
IsRoot(pc) == phase = "running" /\ stack # <<>> /\ Top.fn = "root" /\ Top.pc = pc

ZeroCounts ==
    [extractor |-> 0, rootApp |-> 0, registered |-> 0, userSets |-> 0,
     outer |-> [c \in Classes |-> 0], orig |-> [c \in Classes |-> 0],
     done |-> [c \in Classes |-> 0]]
Bump(field) == [counts EXCEPT ![field] = @ + 1]

SpanOpens == Len(SelectSeq(spanLog, LAMBDA e : e.op = "open"))

\* ------------------------------------------------------ concurrent requests
\* Two requests in flight at once, each an asyncio task of its own.
Req == {"A", "B"}
\* A task before its request has entered: the locals of
\* SentryStarletteMiddleware.__call__ (req, info), what the request carries
\* (who, routes), its ASGI scope, and the user and event processors of the
\* scope of the hub that is current in the task.
IdleTask ==
    [pc |-> "idle", req |-> NoRequest, who |-> NoPrincipal, routes |-> <<>>,
     info |-> InfoNone, asgi |-> NewScope("http"), user |-> UserUnset,
     processors |-> <<>>, events |-> <<>>]

\* ------------------------------------------------------------------- set-up
Init ==
    /\ client = "endpoint"
    /\ ambientUser = UserUnset
    /\ callLayers = [c \in Classes |-> <<>>]
    /\ hookLayers = 0
    /\ phase = "idle"
    /\ scope = NewScope("http")
    /\ stack = <<>>
    /\ result = NoResult
    /\ sentryUser = UserUnset
    /\ scopeName = None
    /\ processors = <<>>
    /\ spanLog = <<>>
    /\ captured = <<>>
    /\ hookLog = NoHook
    /\ wrapLog = {}
    /\ extractIn = NoRequest
    /\ extractOut = ExtractIdle
    /\ counts = ZeroCounts
    /\ tasks = [r \in Req |-> IdleTask]

requestVars == <<phase, scope, stack, result, sentryUser, scopeName, processors,
                 spanLog, captured, hookLog, wrapLog, extractIn, extractOut, counts>>

\* Middleware(cls) entries constructed so far for cls
InitCount(cls) == Len(SelectSeq(callLayers[cls], LAMBDA k : k = "span"))

\* cls.__call__ after _sentry_middleware_init(self, cls): the span patch,
\* and on top of it the authentication patch for AuthenticationMiddleware
PatchedCall(layers, cls) ==
    IF cls = AuthMW THEN layers \o <<"span", "auth">> ELSE layers \o <<"span">>

\* ExceptionMiddleware.http_exception after _sentry_middleware_init(self, cls)
PatchedHook(n, cls) == IF cls = ExcMW THEN n + 1 ELSE n

\* _sentry_middleware_init(self, cls) for every class of a list: what it
\* leaves in cls.__call__ and in ExceptionMiddleware.http_exception
RECURSIVE MiddlewareInit(_, _)
MiddlewareInit(st, classes) ==
    IF classes = <<>> THEN st
    ELSE LET cls == Head(classes) IN
         MiddlewareInit([calls |-> [st.calls EXCEPT ![cls] = PatchedCall(@, cls)],
                         hook |-> PatchedHook(st.hook, cls)],
                        Tail(classes))

\* An application is built (Starlette(middleware = [...]) and
\* build_middleware_stack()): one Middleware(cls) entry is constructed for
\* each class of the stack, through the patched Middleware.__init__.
BuildMiddlewareStack ==
    /\ phase = "idle"
    /\ \A c \in Classes : InitCount(c) < MaxInit
    /\ LET st == MiddlewareInit([calls |-> callLayers, hook |-> hookLayers], Chain) IN
       /\ callLayers' = st.calls
       /\ hookLayers' = st.hook
    /\ UNCHANGED <<client, ambientUser, tasks, requestVars>>

\* sentry_sdk.init(...) binds another client to the hub, between requests
BindClient(c) ==
    /\ phase = "idle"
    /\ c # client
    /\ client' = c
    /\ UNCHANGED <<ambientUser, callLayers, hookLayers, tasks, requestVars>>

\* sentry_sdk.set_user(...) on the process-wide scope, between requests
SetAmbientUser(u) ==
    /\ phase = "idle"
    /\ u # ambientUser
    /\ ambientUser' = u
    /\ sentryUser' = u
    /\ UNCHANGED <<client, callLayers, hookLayers, tasks, phase, scope, stack, result,
                   scopeName, processors, spanLog, captured, hookLog, wrapLog,
                   extractIn, extractOut, counts>>

\* Starlette.__call__ as patched by patch_asgi_app(): a request of type t
\* enters the middleware stack, whose outermost layer is the root
StartRequest(t) ==
    /\ phase = "idle"
    /\ \A c \in Classes : InitCount(c) >= 1
    /\ phase' = "running"
    /\ scope' = NewScope(t)
    /\ stack' = <<Frame("root", 0, 0, "enter", 0)>>
    /\ UNCHANGED <<setupVars, result, sentryVars, spanLog, captured, hookLog,
                   wrapLog, extractVars, counts>>

\* mutant: the application runs on the process-wide hub (no hub of its
\* own per request), so what the request put on the scope stays
FinishKeepsScope ==
    /\ phase = "done"
    /\ phase' = "exited"
    /\ UNCHANGED <<setupVars, sentryVars, scope, stack, result, spanLog, captured,
                   hookLog, wrapLog, extractVars, counts>>

\* _sentry_patched_asgi_app returns: the hub and scope SentryAsgiMiddleware
\* made for the request are dropped, the process-wide scope is current again
Finish ==
    /\ phase = "done"
    /\ phase' = "exited"
    /\ sentryUser' = ambientUser
    /\ scopeName' = None
    /\ processors' = <<>>
    /\ UNCHANGED <<setupVars, scope, stack, result, spanLog, captured, hookLog,
                   wrapLog, extractVars, counts>>

\* the records kept of the finished request are dropped
Forget ==
    /\ phase = "exited"
    /\ phase' = "idle"
    /\ scope' = NewScope("http")
    /\ stack' = <<>>
    /\ result' = NoResult
    /\ UNCHANGED sentryVars
    /\ spanLog' = <<>>
    /\ captured' = <<>>
    /\ hookLog' = NoHook
    /\ wrapLog' = {}
    /\ extractIn' = NoRequest
    /\ extractOut' = ExtractIdle
    /\ counts' = ZeroCounts
    /\ UNCHANGED setupVars

\* ------------------------------------------ SentryStarletteMiddleware.__call__
\* mutant: the non-HTTP branch returns without awaiting self.app
RootBypassReturns ==
    /\ IsRoot("enter")
    /\ scope.type # "http"
    /\ stack' = Pop
    /\ result' = Return(None)
    /\ phase' = "done"
    /\ UNCHANGED <<setupVars, scope, sentryVars, spanLog, captured, hookLog,
                   wrapLog, extractVars, counts>>

\* scope["type"] != "http": await self.app(scope, receive, send)
RootBypass ==
    /\ IsRoot("enter")
    /\ scope.type # "http"
    /\ stack' = SetTop([Top EXCEPT !.pc = "passthrough"]) \o <<Callee(0)>>
    /\ counts' = Bump("rootApp")
    /\ UNCHANGED <<setupVars, phase, scope, result, sentryVars, spanLog,
                   captured, hookLog, wrapLog, extractVars>>

\* integration is None: return
RootInactive ==
    /\ IsRoot("enter")
    /\ scope.type = "http"
    /\ ~IntegrationActive
    /\ stack' = Pop
    /\ result' = Return(None)
    /\ phase' = "done"
    /\ UNCHANGED <<setupVars, scope, sentryVars, spanLog, captured, hookLog,
                   wrapLog, extractVars, counts>>

\* with hub.configure_scope() as sentry_scope: request = Request(...)
RootOpenScope ==
    /\ IsRoot("enter")
    /\ scope.type = "http"
    /\ IntegrationActive
    /\ stack' = SetTop([Top EXCEPT !.pc = "extracting"])
    /\ UNCHANGED <<setupVars, phase, scope, result, sentryVars, spanLog,
                   captured, hookLog, wrapLog, extractVars, counts>>

\* info = await extractor.extract_request_info(); an exception leaves the
\* `with` block and the root
RootExtract ==
    /\ IsRoot("extracting")
    /\ \E r \in Requests :
         LET out == ExtractRequestInfo(r, client # "none") IN
         /\ extractIn' = r
         /\ extractOut' = out
         /\ IF out.kind = "raise"
            THEN /\ stack' = Pop
                 /\ result' = Raise(out.exc)
                 /\ phase' = "done"
            ELSE /\ stack' = SetTop([Top EXCEPT !.pc = "registering"])
                 /\ UNCHANGED <<result, phase>>
    /\ counts' = Bump("extractor")
    /\ UNCHANGED <<setupVars, scope, sentryVars, spanLog, captured, hookLog, wrapLog>>

\* sentry_scope._name = ...; sentry_scope.add_event_processor(...);
\* await self.app(scope, receive, send)
RootRegister ==
    /\ IsRoot("registering")
    /\ scopeName' = Identifier
    /\ processors' = Append(processors, [info |-> extractOut.info, style |-> client])
    /\ stack' = SetTop([Top EXCEPT !.pc = "delegating"]) \o <<Callee(0)>>
    /\ counts' = [counts EXCEPT !.registered = @ + 1, !.rootApp = @ + 1]
    /\ extractIn' = NoRequest
    /\ extractOut' = ExtractIdle
    /\ UNCHANGED <<setupVars, phase, scope, result, sentryUser, spanLog,
                   captured, hookLog, wrapLog>>

\* self.app has finished: the root returns None, or the exception goes on
RootExit ==
    /\ phase = "running" /\ stack # <<>> /\ Top.fn = "root"
    /\ Top.pc \in {"passthrough", "delegating"}
    /\ result # NoResult
    /\ stack' = Pop
    /\ result' = IF result.kind = "raise" THEN result ELSE Return(None)
    /\ phase' = "done"
    /\ UNCHANGED <<setupVars, scope, sentryVars, spanLog, captured, hookLog,
                   wrapLog, extractVars, counts>>

\* ------------------------------------------------- the patched middleware calls
Outermost(f) == f.layer = Len(callLayers[Chain[f.idx]])
\* counts an invocation of a middleware instance (its outermost patch starts)
CountCall(f) ==
    IF Outermost(f) THEN [counts EXCEPT !.outer[Chain[f.idx]] = @ + 1] ELSE counts
\* counts a finished invocation of a middleware instance
CountDone(f) ==
    IF Outermost(f) THEN [counts EXCEPT !.done[Chain[f.idx]] = @ + 1] ELSE counts
\* old_call of a patch: the next layer down of the same class
OldCall(f) == Frame("mw", f.idx, f.layer - 1, "start", 0)

\* mutant: the span wrapper does not look at the integration
SpanWrapperAlways == TRUE

\* `integration is not None` in _create_span_call
SpanWrapperInstruments == IntegrationActive

\* hub.start_span(op = "starlette.middleware", description = middleware_name)
\* entered by `with`
SpanEnter(log, id, cls) == Append(log, [op |-> "open", id |-> id, desc |-> cls])

\* mutant: the span is finished after the await instead of by `with`, so an
\* exception of old_call skips it
SpanExitOnReturnOnly(log, f, res) ==
    IF f.span = 0 \/ res.kind = "raise" THEN log
    ELSE Append(log, [op |-> "close", id |-> f.span, desc |-> Chain[f.idx]])

\* the `with` block of _create_span_call is left, by return or by exception
SpanExit(log, f, res) ==
    IF f.span = 0 THEN log
    ELSE Append(log, [op |-> "close", id |-> f.span, desc |-> Chain[f.idx]])

\* what _create_span_call hands its caller when old_call ended with res
SpanWrapperOutcome(res) == IF res.kind = "raise" THEN res ELSE Return(None)

\* _create_span_call with the integration: open the span, await old_call
SpanWrapperCall ==
    /\ IsMw("span", "start")
    /\ SpanWrapperInstruments
    /\ LET id == SpanOpens + 1 IN
       /\ spanLog' = SpanEnter(spanLog, id, Chain[Top.idx])
       /\ stack' = SetTop([Top EXCEPT !.pc = "await", !.span = id]) \o <<OldCall(Top)>>
    /\ counts' = CountCall(Top)
    /\ UNCHANGED <<setupVars, phase, scope, result, sentryVars, captured,
                   hookLog, wrapLog, extractVars>>

\* _create_span_call without the integration: await old_call
SpanWrapperPlain ==
    /\ IsMw("span", "start")
    /\ ~SpanWrapperInstruments
    /\ stack' = SetTop([Top EXCEPT !.pc = "await"]) \o <<OldCall(Top)>>
    /\ counts' = CountCall(Top)
    /\ UNCHANGED <<setupVars, phase, scope, result, sentryVars, spanLog,
                   captured, hookLog, wrapLog, extractVars>>

\* old_call is over: the span (if any) is closed, the wrapper ends
SpanWrapperExit ==
    /\ IsMw("span", "await")
    /\ spanLog' = SpanExit(spanLog, Top, result)
    /\ result' = SpanWrapperOutcome(result)
    /\ wrapLog' = wrapLog \cup {[cls |-> Chain[Top.idx], inner |-> result,
                                 outer |-> SpanWrapperOutcome(result)]}
    /\ stack' = Pop
    /\ counts' = CountDone(Top)
    /\ UNCHANGED <<setupVars, phase, scope, sentryVars, captured, hookLog, extractVars>>

\* _add_user_to_sentry_scope(scope): sentry_scope.user after it
AddUserToSentryScope(sc, user) ==
    IF ~sc.user.present THEN user
    ELSE IF ~IntegrationActive THEN user
    ELSE UserSet(UserInfo(sc.user.who))

\* whether _add_user_to_sentry_scope(scope) assigns sentry_scope.user
AddUserAssigns(sc) == sc.user.present /\ IntegrationActive

\* _sentry_authenticationmiddleware_call: await old_call(...)
AuthWrapperCall ==
    /\ IsMw("auth", "start")
    /\ stack' = SetTop([Top EXCEPT !.pc = "await"]) \o <<OldCall(Top)>>
    /\ counts' = CountCall(Top)
    /\ UNCHANGED <<setupVars, phase, scope, result, sentryVars, spanLog,
                   captured, hookLog, wrapLog, extractVars>>

\* old_call returned: _add_user_to_sentry_scope(scope), then return None
AuthWrapperExit ==
    /\ IsMw("auth", "await")
    /\ result.kind = "return"
    /\ sentryUser' = AddUserToSentryScope(scope, sentryUser)
    /\ counts' = [CountDone(Top) EXCEPT !.userSets =
                     IF AddUserAssigns(scope) THEN @ + 1 ELSE @]
    /\ result' = Return(None)
    /\ stack' = Pop
    /\ UNCHANGED <<setupVars, phase, scope, scopeName, processors, spanLog,
                   captured, hookLog, wrapLog, extractVars>>

\* old_call raised: the exception leaves the wrapper before the user is copied
AuthWrapperRaise ==
    /\ IsMw("auth", "await")
    /\ result.kind = "raise"
    /\ stack' = Pop
    /\ counts' = CountDone(Top)
    /\ UNCHANGED <<setupVars, phase, scope, result, sentryVars, spanLog,
                   captured, hookLog, wrapLog, extractVars>>

\* ------------------------------------------- the middleware's own __call__
\* a user middleware: await self.app(scope, receive, send)
UserCall ==
    /\ IsOrig(UserMW, "start")
    /\ stack' = SetTop([Top EXCEPT !.pc = "await"]) \o <<Callee(Top.idx)>>
    /\ counts' = [counts EXCEPT !.orig[UserMW] = @ + 1]
    /\ UNCHANGED <<setupVars, phase, scope, result, sentryVars, spanLog,
                   captured, hookLog, wrapLog, extractVars>>

\* ... and then returns a value of its own, or lets the exception through
UserExit ==
    /\ IsOrig(UserMW, "await")
    /\ \E v \in RetVals :
         result' = IF result.kind = "raise" THEN result ELSE Return(v)
    /\ stack' = Pop
    /\ UNCHANGED <<setupVars, phase, scope, sentryVars, spanLog, captured,
                   hookLog, wrapLog, extractVars, counts>>

\* AuthenticationMiddleware: the backend authenticates p, scope["user"] = p,
\* await self.app(...)
AuthCall(p) ==
    /\ IsOrig(AuthMW, "start")
    /\ scope' = [scope EXCEPT !.user = AsgiUser(p)]
    /\ stack' = SetTop([Top EXCEPT !.pc = "await"]) \o <<Callee(Top.idx)>>
    /\ counts' = [counts EXCEPT !.orig[AuthMW] = @ + 1]
    /\ UNCHANGED <<setupVars, phase, result, sentryVars, spanLog, captured,
                   hookLog, wrapLog, extractVars>>

\* AuthenticationMiddleware: the backend raises AuthenticationError; the
\* error response is sent, scope["user"] stays absent, self.app is not called
AuthReject ==
    /\ IsOrig(AuthMW, "start")
    /\ result' = Return(None)
    /\ stack' = Pop
    /\ counts' = [counts EXCEPT !.orig[AuthMW] = @ + 1]
    /\ UNCHANGED <<setupVars, phase, scope, sentryVars, spanLog, captured,
                   hookLog, wrapLog, extractVars>>

AuthExit ==
    /\ IsOrig(AuthMW, "await")
    /\ result' = IF result.kind = "raise" THEN result ELSE Return(None)
    /\ stack' = Pop
    /\ UNCHANGED <<setupVars, phase, scope, sentryVars, spanLog, captured,
                   hookLog, wrapLog, extractVars, counts>>

\* ExceptionMiddleware: await self.app(...) inside try
ExcCall ==
    /\ IsOrig(ExcMW, "start")
    /\ stack' = SetTop([Top EXCEPT !.pc = "await"]) \o <<Callee(Top.idx)>>
    /\ counts' = [counts EXCEPT !.orig[ExcMW] = @ + 1]
    /\ UNCHANGED <<setupVars, phase, scope, result, sentryVars, spanLog,
                   captured, hookLog, wrapLog, extractVars>>

\* whether ExceptionMiddleware has a handler for outcome res: the
\* HTTPException of an HTTP request goes to self.http_exception
ExcHandles(res) == scope.type = "http" /\ res = Raise("HTTPException")

\* ExceptionMiddleware: an HTTPException is dispatched to
\* self.http_exception(request, exc) and its response is sent
ExcHandle ==
    /\ IsOrig(ExcMW, "await")
    /\ ExcHandles(result)
    /\ LET h == PatchedHttpException(hookLayers, result.val) IN
       /\ captured' = captured \o h.events
       /\ hookLog' = [called |-> TRUE, exc |-> result.val, events |-> Len(h.events),
                      ops |-> h.ops, args |-> h.args, ret |-> h.ret,
                      original |-> OriginalResponse(result.val)]
    /\ result' = Return(None)
    /\ stack' = Pop
    /\ UNCHANGED <<setupVars, phase, scope, sentryVars, spanLog, wrapLog,
                   extractVars, counts>>

\* ExceptionMiddleware: no handler for the exception (it is raised again),
\* or no exception
ExcExit ==
    /\ IsOrig(ExcMW, "await")
    /\ ~ExcHandles(result)
    /\ result' = IF result.kind = "raise" THEN result ELSE Return(None)
    /\ stack' = Pop
    /\ UNCHANGED <<setupVars, phase, scope, sentryVars, spanLog, captured,
                   hookLog, wrapLog, extractVars, counts>>

\* the router sets scope["router"], its route table being rt, and the
\* endpoint ends with `out`
Outcomes == {Return(None), Raise("HTTPException"), Raise("RuntimeError")}
App(rt, out) ==
    /\ phase = "running" /\ stack # <<>> /\ Top.fn = "app"
    /\ scope' = [scope EXCEPT !.router = Router(rt)]
    /\ result' = out
    /\ stack' = Pop
    /\ UNCHANGED <<setupVars, phase, sentryVars, spanLog, captured, hookLog,
                   wrapLog, extractVars, counts>>

Next ==
    \/ BuildMiddlewareStack
    \/ \E c \in ClientStates : BindClient(c)
    \/ \E t \in RequestTypes : StartRequest(t)
    \/ \E u \in AmbientUsers : SetAmbientUser(u)
    \/ Finish
    \/ Forget
    \/ RootBypass
    \/ RootInactive
    \/ RootOpenScope
    \/ RootExtract
    \/ RootRegister
    \/ RootExit
    \/ SpanWrapperCall
    \/ SpanWrapperPlain
    \/ SpanWrapperExit
    \/ AuthWrapperCall
    \/ AuthWrapperExit
    \/ AuthWrapperRaise
    \/ UserCall
    \/ UserExit
    \/ \E p \in Principals : AuthCall(p)
    \/ AuthReject
    \/ AuthExit
    \/ ExcCall
    \/ ExcHandle
    \/ ExcExit
    \/ \E rt \in RouteTables, out \in Outcomes : App(rt, out)

Spec == Init /\ [][Next]_vars

\* ------------------------------------------- the event processor by itself
\* The closure is registered before the router is reached and may be called
\* with any event at any later moment of the request.
EmitInfos ==
    {InfoNone, Info(FALSE, NoData), Info(TRUE, NoData),
     Info(FALSE, JsonData("obj")), Info(TRUE, Annotated("!raw", 1))}

\* the events handed to the processor: with or without a "request" and a
\* "transaction" put there earlier, handled or not, with or without a user
GenericTransaction == <<"generic ASGI request", 0>>
IncomingEvents ==
    { [EventFromException("HTTPException", h) EXCEPT
          !.user = u, !.transaction = t, !.hasRequest = hr,
          !.request = IF hr THEN [hasCookies |-> TRUE, data |-> Annotated("!raw", 1)]
                      ELSE EmptyRequestInfo] :
      h \in BOOLEAN, u \in AmbientUsers, hr \in BOOLEAN,
      t \in {NoTransaction, GenericTransaction} }

emitFrame == <<ambientUser, callLayers, hookLayers, tasks, stack, result, sentryUser,
               spanLog, hookLog, wrapLog, extractIn, extractOut, counts>>

\* sentry_scope.add_event_processor(_make_request_event_processor(request,
\* integration)), the extraction having given info i
EmitRegister(i) ==
    /\ phase = "idle"
    /\ IntegrationActive
    /\ phase' = "running"
    /\ scope' = NewScope("http")
    /\ scopeName' = Identifier
    /\ processors' = <<[info |-> i, style |-> client]>>
    /\ captured' = <<>>
    /\ UNCHANGED <<client, emitFrame>>

\* the request reaches the router: scope["router"] is there from now on
EmitRoute(rt) ==
    /\ phase = "running"
    /\ ~scope.router.present
    /\ scope' = [scope EXCEPT !.router = Router(rt)]
    /\ UNCHANGED <<client, phase, scopeName, processors, captured, emitFrame>>

\* inner(event, hint) is called with ev; captured keeps ev and what it returned
EmitEvent(ev) ==
    /\ phase = "running"
    /\ captured' = <<ev, EventProcessor(processors[1], scope, ev)>>
    /\ UNCHANGED <<client, phase, scope, scopeName, processors, emitFrame>>

\* the request is over
EmitDone ==
    /\ phase = "running"
    /\ phase' = "idle"
    /\ scope' = NewScope("http")
    /\ scopeName' = None
    /\ processors' = <<>>
    /\ captured' = <<>>
    /\ UNCHANGED <<client, emitFrame>>

NextEmit ==
    \/ \E c \in ClientStates : BindClient(c)
    \/ \E i \in EmitInfos : EmitRegister(i)
    \/ \E rt \in RouteTables : EmitRoute(rt)
    \/ \E ev \in IncomingEvents : EmitEvent(ev)
    \/ EmitDone

SpecEmit == Init /\ [][NextEmit]_vars

\* ------------------------------------------------- two requests interleaved
\* Each request runs in its own task; a task is suspended where the code
\* awaits (the body read of the extractor, the wrapped chain) and the other
\* task may run there.
ConcBodies ==
    { [len |-> 1, pii |-> TRUE, contentType |-> "json", jsonVal |-> "obj",
       formBad |-> FALSE, form |-> <<>>],
      [len |-> 1, pii |-> FALSE, contentType |-> "other", jsonVal |-> "obj",
       formBad |-> FALSE, form |-> <<>>],
      [len |-> 1, pii |-> FALSE, contentType |-> "json", jsonVal |-> "bad",
       formBad |-> FALSE, form |-> <<>>] }
ConcPrincipals ==
    { [username |-> "bob", id |-> "7", email |-> "none"],
      [username |-> "none", id |-> "none", email |-> "e@x"] }
ConcRouteTables ==
    { [i \in 1..MaxRoutes |-> IF i = 1 THEN "FULL" ELSE "NONE"],
      [i \in 1..MaxRoutes |-> IF i = MaxRoutes THEN "FULL" ELSE "NONE"] }

\* mutant: the extracted info is kept on the middleware instance, which the
\* two requests share
InfoCellOnInstance(r) == "A"

\* where `info` of request r lives: a local of r's own call of __call__
InfoCell(r) == r

\* Hub.current inside the task of request r: the hub SentryAsgiMiddleware
\* made for that request
HubOf(r) == r

concFrame == <<client, ambientUser, callLayers, hookLayers, phase, scope, stack,
               result, sentryUser, scopeName, processors, spanLog, captured,
               hookLog, wrapLog, extractIn, extractOut, counts>>

\* request r enters the patched Starlette.__call__ and the root middleware,
\* which builds the Request and awaits the extractor's reading of the body
ConcEnter(r, body, who, rt) ==
    /\ tasks[r].pc = "idle"
    /\ IntegrationActive
    /\ tasks' = [tasks EXCEPT
                   ![r] = [IdleTask EXCEPT !.pc = "extracting", !.req = body,
                                           !.who = who, !.routes = rt],
                   ![HubOf(r)].user = ambientUser,
                   ![HubOf(r)].processors = <<>>]
    /\ UNCHANGED concFrame

\* the body has been read: info is assigned, the closure is registered on
\* the current hub's scope and the root awaits self.app; an exception of the
\* extractor ends the root
ConcResume(r) ==
    /\ tasks[r].pc = "extracting"
    /\ LET out == ExtractRequestInfo(tasks[r].req, TRUE) IN
       tasks' = IF out.kind = "raise"
                THEN [tasks EXCEPT ![r].pc = "failed"]
                ELSE [tasks EXCEPT
                        ![InfoCell(r)].info = out.info,
                        ![HubOf(r)].processors =
                            Append(@, [cell |-> InfoCell(r), style |-> client]),
                        ![r].pc = "delegating"]
    /\ UNCHANGED concFrame

\* AuthenticationMiddleware puts the principal into scope["user"] and awaits
\* the rest of the chain
ConcAuth(r) ==
    /\ tasks[r].pc = "delegating"
    /\ tasks' = [tasks EXCEPT ![r].asgi.user = AsgiUser(tasks[r].who),
                              ![r].pc = "authed"]
    /\ UNCHANGED concFrame

\* the router puts itself into scope["router"] and awaits the endpoint
ConcRoute(r) ==
    /\ tasks[r].pc = "authed"
    /\ tasks' = [tasks EXCEPT ![r].asgi.router = Router(tasks[r].routes),
                              ![r].pc = "routed"]
    /\ UNCHANGED concFrame

\* the endpoint is over and _sentry_authenticationmiddleware_call runs
\* _add_user_to_sentry_scope(scope) on the current hub
ConcBridge(r) ==
    /\ tasks[r].pc = "routed"
    /\ tasks' = [tasks EXCEPT
                   ![HubOf(r)].user = AddUserToSentryScope(tasks[r].asgi, @),
                   ![r].pc = "bridged"]
    /\ UNCHANGED concFrame

\* the closures of a scope, each with the info it reads when it is called
Closures(ps) ==
    [i \in 1..Len(ps) |-> [info |-> tasks[ps[i].cell].info, style |-> ps[i].style]]

\* an event is emitted while request r is in the chain: the scope of the
\* current hub is applied to it
ConcCapture(r) ==
    /\ tasks[r].pc \in {"delegating", "authed", "routed", "bridged"}
    /\ tasks[r].events = <<>>
    /\ tasks' = [tasks EXCEPT ![r].events =
                   <<ApplyToEvent(EventFromException("HTTPException", TRUE),
                                  tasks[HubOf(r)].user,
                                  Closures(tasks[HubOf(r)].processors),
                                  tasks[r].asgi)>>]
    /\ UNCHANGED concFrame

\* the root and the patched Starlette.__call__ return: the task is over
ConcExit(r) ==
    /\ tasks[r].pc \in {"bridged", "failed"}
    /\ tasks' = [tasks EXCEPT ![r] = IdleTask]
    /\ UNCHANGED concFrame

NextConc ==
    \/ \E r \in Req, body \in ConcBodies, who \in ConcPrincipals, rt \in ConcRouteTables :
          ConcEnter(r, body, who, rt)
    \/ \E r \in Req : ConcResume(r)
    \/ \E r \in Req : ConcAuth(r)
    \/ \E r \in Req : ConcRoute(r)
    \/ \E r \in Req : ConcBridge(r)
    \/ \E r \in Req : ConcCapture(r)
    \/ \E r \in Req : ConcExit(r)

SpecConc == Init /\ [][NextConc]_vars

\* ===================================================================== claims
\* spans of class cls opened / closed so far in this request
Opens(cls) == Len(SelectSeq(spanLog, LAMBDA e : e.op = "open" /\ e.desc = cls))
Closes(cls) == Len(SelectSeq(spanLog, LAMBDA e : e.op = "close" /\ e.desc = cls))

\* The span log replayed from entry i on: a span can only be closed when it
\* is the one opened last among those still open.
RECURSIVE Replay(_, _, _)
Replay(log, i, open) ==
    IF i > Len(log) THEN [lifo |-> TRUE, open |-> open]
    ELSE IF log[i].op = "open" THEN Replay(log, i + 1, Append(open, log[i].id))
    ELSE IF open # <<>> /\ open[Len(open)] = log[i].id
         THEN Replay(log, i + 1, SubSeq(open, 1, Len(open) - 1))
         ELSE [lifo |-> FALSE, open |-> open]

\* the spans of the span wrappers now on the call chain, outermost first
FrameSpans ==
    LET frames == SelectSeq(stack, LAMBDA f : f.span # 0)
    IN [i \in 1..Len(frames) |-> frames[i].span]

\* C1: spans close in the exact reverse of the order they were opened in;
\* the spans open at any moment are those of the wrappers on the call
\* chain, outer before inner, so an outer span is open whenever an inner one
\* is; and when the request is over, by return or by exception, every span
\* is closed.
C1_SpansCloseLifo ==
    LET r == Replay(spanLog, 1, <<>>) IN
    /\ r.lifo
    /\ r.open = FrameSpans
    /\ (phase = "done" => r.open = <<>>)

\* C1 witness: a request that ended with an exception after three or more
\* spans were opened and closed
C1_Witness ==
    /\ phase = "done"
    /\ result = Raise("RuntimeError")
    /\ Len(spanLog) >= 6
    /\ \A c \in Classes : Closes(c) >= 1

\* C2: with the integration active, an invocation of a wrapped middleware
\* instance opens exactly one span and closes it when the invocation is over.
C2_OneSpanPerInvocation ==
    IntegrationActive =>
        \A c \in Classes :
            /\ Closes(c) <= Opens(c)
            /\ Opens(c) <= counts.outer[c]
            /\ (counts.done[c] = counts.outer[c] =>
                    Opens(c) = counts.outer[c] /\ Closes(c) = counts.outer[c])

\* C3: without the integration no span is opened, the extractor is never
\* run, and every invoked middleware reaches its own __call__ once per
\* invocation.
C3_InactiveNoSpansNoExtraction ==
    ~IntegrationActive =>
        /\ spanLog = <<>>
        /\ counts.extractor = 0
        /\ \A c \in Classes :
              /\ counts.orig[c] <= counts.outer[c]
              /\ (counts.done[c] = counts.outer[c] => counts.orig[c] = counts.outer[c])

\* C3 witness: a request went through all three patched middleware without
\* the integration
C3_Witness ==
    /\ phase = "done"
    /\ ~IntegrationActive
    /\ \A c \in Classes : counts.done[c] = 1 /\ counts.orig[c] = 1

\* C4: an HTTP request that reaches the root without the integration is
\* handed to the wrapped app exactly once, with no extraction and no event
\* processor registered.
C4_InactiveRootDelegates ==
    (phase = "done" /\ scope.type = "http" /\ ~IntegrationActive) =>
        /\ counts.rootApp = 1
        /\ counts.extractor = 0
        /\ counts.registered = 0

\* C5: the span wrapper ends the way old_call ended: the same exception or
\* the same return value.
C5_WrapperKeepsOutcome ==
    \A w \in wrapLog : w.outer = w.inner

\* C6: extract_request_info never raises; a parse failure leaves the
\* raw-unparsed placeholder of the body's length.
C6_ExtractionNeverRaises ==
    /\ extractOut.kind # "raise"
    /\ (/\ extractOut.kind = "return"
        /\ RequestBodyWithinBounds(extractIn.len)
        /\ (extractIn.formBad \/ (extractIn.contentType = "json" /\ extractIn.jsonVal = "bad"))
        /\ extractIn.len > 0)
       => extractOut.info.data = Annotated("!raw", extractIn.len)

\* the first route of the table whose match is FULL (0 when there is none)
FirstFull(routes) ==
    IF \E i \in 1..Len(routes) : routes[i] = "FULL"
    THEN CHOOSE i \in 1..Len(routes) :
            /\ routes[i] = "FULL"
            /\ \A j \in 1..(i - 1) : routes[j] # "FULL"
    ELSE 0

\* C7: the transaction of an event is named after the first FULL route of
\* the table, and no route after it is matched.
C7_FirstFullMatchWins ==
    \A k \in 1..Len(captured) :
        (/\ processors # <<>>
         /\ scope.router.present
         /\ FirstFull(scope.router.routes) # 0)
        => /\ captured[k].transaction =
                RouteTransaction(processors[1].style, FirstFull(scope.router.routes))
           /\ captured[k].tried = FirstFull(scope.router.routes)

\* C8: when the request carries an authenticated principal, an event the
\* exception hook reports already has that principal's identity as its user.
C8_UserKnownAtCapture ==
    \A k \in 1..Len(captured) :
        (scope.user.present /\ UserInfo(scope.user.who) # EmptyDict)
        => captured[k].user = UserSet(UserInfo(scope.user.who))

\* C9: a dispatch to the patched http_exception captures exactly one event
\* (handled, mechanism type "starlette") before the original hook when the
\* integration is active and none otherwise, calls the original hook once
\* with the same exception, and returns what it returned.
C9_HookCapturesOnceThenDelegates ==
    hookLog.called =>
        /\ hookLog.ops = IF IntegrationActive THEN <<"capture", "original">>
                         ELSE <<"original">>
        /\ hookLog.events = IF IntegrationActive THEN 1 ELSE 0
        /\ \A k \in 1..Len(captured) :
              captured[k].handled /\ captured[k].mechanism = Identifier
                 /\ captured[k].exc = hookLog.exc
        /\ hookLog.args = <<hookLog.exc>>
        /\ hookLog.ret = hookLog.original

\* C10: sentry_scope.user is assigned at most once per request, and only
\* from a principal with a non-empty username, id or email: it is never an
\* empty record.
C10_UserSetOnceForPrincipal ==
    /\ counts.userSets <= 1
    /\ (counts.userSets >= 1 =>
            /\ scope.user.present
            /\ UserInfo(scope.user.who) # EmptyDict
            /\ sentryUser.info # EmptyDict)

\* a request is in progress or its records are still kept
InRequest == phase \in {"running", "done", "exited"}
\* the request's own scope is current (the root may have returned already)
ScopeAlive == phase \in {"running", "done"}

\* setOrKeep: the fields of old stay, the others come from new
SetOrKeep(old, new) ==
    [f \in (DOMAIN old) \cup (DOMAIN new) |->
        IF f \in DOMAIN old THEN old[f] ELSE new[f]]

\* C11: the bridge keeps every field the scope's user already had before
\* it ran and fills only the missing ones from the principal.
C11_BridgeSetsOrKeeps ==
    (ScopeAlive /\ counts.userSets >= 1) =>
        sentryUser.info = SetOrKeep(ambientUser.info, UserInfo(scope.user.who))

\* C12: a body longer than the budget yields the "!config" placeholder of
\* the body's true length without the form or the JSON being parsed (so a
\* body that would not parse cannot fail the extraction); a body within the
\* budget never yields that placeholder.
C12_SizeLimitPlaceholder ==
    extractOut.kind # "idle" =>
        /\ (extractIn.len > SizeBudget =>
                /\ extractOut.kind = "return"
                /\ extractOut.info.data = Annotated("!config", extractIn.len))
        /\ ((extractIn.len <= SizeBudget /\ extractOut.kind = "return") =>
                extractOut.info.data.kind # "!config")

\* C12 witness: an over-long body whose form would not parse was extracted
C12_Witness ==
    /\ extractOut.kind = "return"
    /\ extractIn.len > SizeBudget
    /\ extractIn.formBad
    /\ extractOut.info.data = Annotated("!config", extractIn.len)

\* C13: an HTTP request with the integration active is extracted once,
\* then has one event processor registered, then is handed to the wrapped
\* chain once, and no step is skipped before the root ends.
C13_RootPhasesInOrder ==
    (InRequest /\ scope.type = "http" /\ IntegrationActive) =>
        /\ counts.extractor <= 1
        /\ counts.registered <= counts.extractor
        /\ counts.rootApp <= counts.registered
        /\ (phase \in {"done", "exited"} =>
                /\ counts.extractor = 1
                /\ counts.registered = 1
                /\ counts.rootApp = 1)

LateEvent == ApplyToEvent(EventFromException("late", FALSE), sentryUser, processors, scope)

C17_UploadsRedacted ==
    (extractOut.kind = "return" /\ extractIn.len <= SizeBudget /\ extractIn.form # <<>>) =>
        LET d == extractOut.info.data IN
        /\ d.kind = "form"
        /\ Len(d.fields) = Len(extractIn.form)
        /\ \A i \in 1..Len(extractIn.form) :
              LET f == extractIn.form[i]
                  g == d.fields[i]
              IN /\ g.key = f.key
                 /\ (f.isFile => g.annotated /\ g.len = f.size /\ g.val = "")
                 /\ (~f.isFile => ~g.annotated /\ g.val = f.val)

\* C17 witness: a form with a text field and a non-empty upload was extracted
C17_Witness ==
    /\ extractOut.kind = "return"
    /\ extractOut.info.data.kind = "form"
    /\ \E i \in 1..Len(extractIn.form) : extractIn.form[i].isFile /\ extractIn.form[i].size >= 1
    /\ \E i \in 1..Len(extractIn.form) : ~extractIn.form[i].isFile

\* the data the priority order of the spec gives request r
PriorityData(r) ==
    IF r.form # <<>> THEN FormData([i \in 1..Len(r.form) |-> FormField(r.form[i])])
    ELSE IF r.contentType = "json" /\ r.jsonVal # "bad" THEN JsonData(r.jsonVal)
    ELSE IF r.len > 0 THEN Annotated("!raw", r.len)
    ELSE NoData

\* C18: within the budget the data is the form mapping if there are form
\* fields, else the parsed JSON value under a JSON content type, else the
\* "!raw" placeholder of a non-empty body, else unset.
C18_DataPriority ==
    (extractOut.kind # "idle" /\ extractIn.len <= SizeBudget) =>
        /\ extractOut.kind = "return"
        /\ extractOut.info.data = PriorityData(extractIn)

\* C20: however many Middleware entries were constructed for a class, one
\* invocation opens one span, one dispatch to the exception hook captures
\* one event, and the bridge copies the user once.
C20_PatchingIdempotent ==
    (InRequest /\ IntegrationActive /\ \A c \in Classes : InitCount(c) >= 1) =>
        /\ \A c \in Classes : Opens(c) <= counts.outer[c]
        /\ hookLog.events <= 1
        /\ counts.userSets <= 1

\* the routes of a table that answer FULL
Fulls(routes) == {i \in DOMAIN routes : routes[i] = "FULL"}

\* C19: when the processor is called, the transaction it gives the event is
\* that of a FULL route of the router then in the request's scope; with no
\* router there, or no FULL route, the transaction is the one the event came
\* with; the event's other fields (exception, mechanism, handled, user) are
\* returned as they came.
C19_TransactionResolvedAtEmission ==
    [][(captured' # captured /\ captured' # <<>>) =>
          LET in == captured'[1]
              out == captured'[2]
              fulls == Fulls(scope.router.routes)
          IN /\ (scope.router.present /\ fulls # {}) =>
                    out.transaction \in {RouteTransaction(processors[1].style, i) : i \in fulls}
             /\ (~scope.router.present \/ fulls = {}) =>
                    out.transaction = in.transaction
             /\ out.exc = in.exc
             /\ out.mechanism = in.mechanism
             /\ out.handled = in.handled
             /\ out.user = in.user]_vars

\* C19 witness: a closure registered before the router was reached has
\* replaced the transaction of an event emitted after it
C19_Witness ==
    /\ captured # <<>>
    /\ scope.router.present
    /\ Fulls(scope.router.routes) # {}
    /\ captured[1].transaction = GenericTransaction
    /\ captured[2].transaction = RouteTransaction(processors[1].style, 1)

\* C16: an event emitted during a request carries the request info
\* extracted from that request's own body, the user of that request's own
\* principal (or the process-wide user, before the bridge has run) and a
\* transaction of that request's own routes, whatever the other request
\* has done meanwhile.
C16_RequestsShareNoScope ==
    \A r \in Req : \A i \in 1..Len(tasks[r].events) :
        LET ev == tasks[r].events[i]
            own == ExtractRequestInfo(tasks[r].req, TRUE).info
        IN /\ ev.hasRequest
           /\ ev.request = [hasCookies |-> own.hasCookies, data |-> own.data]
           /\ ev.user \in {ambientUser, UserSet(UserInfo(tasks[r].who))}
           /\ ev.transaction \in
                 {NoTransaction} \cup {RouteTransaction(client, j) : j \in Fulls(tasks[r].routes)}

\* C16 witness: two requests with different bodies, principals and routes
\* were interleaved and an event was emitted in each after its bridge ran
C16_Witness ==
    /\ \A r \in Req : tasks[r].pc = "bridged" /\ tasks[r].events # <<>>
    /\ tasks["A"].req # tasks["B"].req
    /\ tasks["A"].who # tasks["B"].who
    /\ tasks["A"].routes # tasks["B"].routes
    /\ \A r \in Req : tasks[r].events[1].user.set
    /\ \A r \in Req : tasks[r].events[1].transaction # NoTransaction

====
